---- MODULE Spec2Model ----
(***************************************************************************)
(* Model of macro_log.py: the MacroLog dispatcher, its background queue    *)
(* and drain worker, and the routing of one record to the file, console,   *)
(* display and command-error sinks.                                        *)
(*                                                                         *)
(* Python values are records [type, name, value]; text is a sequence of    *)
(* string pieces, a line break being the piece "\n" of its own, so that    *)
(* f-string rendering is concatenation and the formatter's replace is a    *)
(* map over the pieces.                                                    *)
(***************************************************************************)
EXTENDS Integers, Sequences, FiniteSets, TLC

\* ------------------------------------------------------------------ bounds
\* Dispatcher instances created in the process (host restarts + 1).
MaxInst == 2
\* Log commands the host dispatches in one run.
MaxCmds == 1
\* Days the rotating file is followed over, and lines written to it.
MaxDay == 4
MaxWrites == 5
\* Pieces in a text given to the formatter.
MaxLen == 4
\* Records the file handler fails on.
MaxFail == 2

\* ------------------------------------------------------------------ Level
TRACE == [type |-> "Level", name |-> "TRACE", value |-> 0]
DEBUG == [type |-> "Level", name |-> "DEBUG", value |-> 1]
INFO == [type |-> "Level", name |-> "INFO", value |-> 2]
WARN == [type |-> "Level", name |-> "WARN", value |-> 3]
ERROR == [type |-> "Level", name |-> "ERROR", value |-> 5]

Level == {TRACE, DEBUG, INFO, WARN, ERROR}

\* Python's None, an int and a str, in the same shape as a Level member.
None == [type |-> "NoneType", name |-> "None", value |-> 0]
int(n) == [type |-> "int", name |-> "int", value |-> n]
str(s) == [type |-> "str", name |-> s, value |-> 0]

\* x.value exists only on a Level member: on an int it is an AttributeError.
has_value(x) == x.type = "Level"

\* self <= other as Python evaluates it: Level.__le__, or for an int on the
\* left the reflected Level.__ge__; both read .value of both operands.
le_raises(a, b) == ~(has_value(a) /\ has_value(b))
le(a, b) == a.value <= b.value

\* Mutant: __lt__ written with the operator of __le__.
lt_inclusive(a, b) == a.value <= b.value

\* Level.__lt__, __gt__, __ge__ (lines 21-28); like <=, each reads .value of
\* both operands and raises where one has none.
lt(a, b) == a.value < b.value
gt(a, b) == a.value > b.value
ge(a, b) == a.value >= b.value

\* ------------------------------------------------------------- MacroLog.__init__
\* config.getint(..., minval=0, maxval=4)
ConfigLevels == 0..4

\* for lvl in Level: if self.log_level == lvl.value: self.log_level = lvl
level_of_config(n) ==
  IF \E l \in Level : l.value = n
    THEN CHOOSE l \in Level : l.value = n
    ELSE int(n)

\* ------------------------------------------------------------------ state
VARIABLES
  inst,            \* number of the live MacroLog instance (1 = first load_config)
  log_level,       \* self.log_level of the live instance
  log_file_level,  \* self.log_file_level of the live instance
  logger,          \* self.logger of the live instance: "None" or "ML"
  queue_listener,  \* self.queue_listener of each instance: "None" or "QL"
  handlers,        \* QueueHandlers on the process-wide logger 'ML'
  threads,         \* worker threads started so far (Thread.start calls)
  bg_queue,        \* QueueListener.bg_queue, oldest first
  bg_thread,       \* worker: "none", "get" (at queue.get), "handle", "exited"
  record,          \* the worker's local variable record
  file,            \* lines the file handler has written, oldest first
  atexit,          \* instances whose shutdown is registered with atexit
  phase,           \* process: "run", "exit" (atexit callbacks running), "done"
  joining,         \* the main thread is inside bg_thread.join()
  disconnected,    \* klippy:disconnect was delivered to the live instance
  sent,            \* history: every put on bg_queue, in order
  ncmds,           \* history: log commands dispatched so far
  gcmd,            \* arguments of the last handler, when it was a command
  op,              \* last handler run on the main thread
  lvs,             \* the LogVars that handler passed to _log, in order
  calls,           \* the sink calls that handler made, in order
  exc,             \* how that handler ended: "none" or the exception raised
  failed,          \* history: which records, counted as handled, the sink failed on
  applied,         \* the last call of a pure function: its name, arguments, result
  rotating         \* the file handler and its directory: the day, the active
                   \* file, the archived files, the next rollover

vars == <<inst, log_level, log_file_level, logger, queue_listener, handlers,
          threads, bg_queue, bg_thread, record, file, atexit, phase, joining,
          disconnected, sent, ncmds, gcmd, op, lvs, calls, exc, failed,
          applied, rotating>>

config == <<log_level, log_file_level>>
worker == <<bg_thread, record, file>>
observed == <<gcmd, op, lvs, calls, exc>>
aux == <<failed, applied, rotating>>

\* No pure function has been called on its own.
NotApplied == [fn |-> "none", args |-> <<>>, result |-> <<>>]

\* A LogRecord on the queue, and the None that stop() puts.
LogRecord(m) == [isNone |-> FALSE, msg |-> m]
StopSentinel == [isNone |-> TRUE, msg |-> <<>>]

\* ------------------------------------------------------------------ LogVars
LogVars(level, name, msg, display, notify) ==
  [level |-> level, name |-> name, msg |-> msg, display |-> display,
   notify |-> notify]

\* Command arguments: NAME is optional (None renders "None" in an f-string),
\* MSG is required, DISPLAY and NOTIFY are ints defaulting to 0.
\* LVL is read by _ML alone.
Absent == <<"<absent>">>
NoLVL == "<absent>"
Names == {"M"}
Msgs == {<<"a">>}
LVLs == {NoLVL, "warn", "foo"}
Gcmds(lvls) ==
  [NAME : Names, MSG : Msgs, DISPLAY : {0, 1}, NOTIFY : {0, 1}, LVL : lvls]
    \cup [NAME : Names, MSG : {Absent}, DISPLAY : {0}, NOTIFY : {0}, LVL : lvls]
NoGcmd ==
  [NAME |-> "", MSG |-> Absent, DISPLAY |-> 0, NOTIFY |-> 0, LVL |-> NoLVL]

\* Mutant: MSG read with a default, like NAME.
parse_never_raises(g) == FALSE

\* gcmd.get('MSG') has no default: the host raises its error when MSG is absent.
parse_raises(g) == g.MSG = Absent
parse(g, level) == LogVars(level, g.NAME, g.MSG, g.DISPLAY, g.NOTIFY)

\* ------------------------------------------------------------------ MacroLog._log
Call(sink, text) == [sink |-> sink, text |-> text]

message(lv) ==
  IF lv.level = None
    THEN <<lv.name, ": ">> \o lv.msg
    ELSE <<lv.level.name, " [", lv.name, "]: ">> \o lv.msg

\* Lines 121-127. lv.level.name fails on a str, the comparison fails on an int
\* threshold, self.logger.info fails while self.logger is None.
file_raises(lv, lg) ==
  IF lv.level = None
    THEN lg = "None"
    ELSE \/ lv.level.type # "Level"
         \/ le_raises(log_file_level, lv.level)
         \/ (le(log_file_level, lv.level) /\ lg = "None")

file_emits(lv) == lv.level = None \/ le(log_file_level, lv.level)

\* Line 132.
console_raises(lv) == lv.level # None /\ le_raises(log_level, lv.level)
console_acts(lv) == lv.level = None \/ le(log_level, lv.level)

\* Mutant: the marker kept to the levels below WARN.
console_text_below_warn(lv) ==
  IF lv.notify # 0 /\ lv.level \in {TRACE, DEBUG, INFO}
    THEN <<"MR_NOTIFY | ">> \o message(lv) ELSE message(lv)

\* Lines 133-134.
console_text(lv) ==
  IF lv.notify # 0 THEN <<"MR_NOTIFY | ">> \o message(lv) ELSE message(lv)

\* Lines 135-143.
console_sink(lv) ==
  IF lv.level = WARN THEN "respond_error"
  ELSE IF lv.level = ERROR THEN "command_error"
  ELSE "respond_info"

\* Line 130.
display_command(lv) == <<"SET_DISPLAY_TEXT MSG=\"">> \o message(lv) \o <<"\"">>

\* One call of _log with self.logger = lg: the sink calls made, in order, and
\* the exception that ended it.
_log(lv, lg) ==
  LET c1 == IF file_emits(lv)
              THEN <<Call("logger.info", message(lv))>> ELSE <<>>
      c2 == IF lv.display # 0
              THEN <<Call("_process_commands", display_command(lv))>> ELSE <<>>
      c3 == IF console_acts(lv)
              THEN <<Call(console_sink(lv), console_text(lv))>> ELSE <<>>
  IN IF file_raises(lv, lg)
       THEN [calls |-> <<>>, exc |-> "AttributeError"]
     ELSE IF console_raises(lv)
       THEN [calls |-> c1 \o c2, exc |-> "AttributeError"]
     ELSE [calls |-> c1 \o c2 \o c3, exc |-> "none"]

\* QueueHandler.emit for every logger.info among the calls: the records put.
\* The logger 'ML' is left at NOTSET, so INFO records pass when the host has
\* set the root logger to INFO or lower, as the host application does.
IsInfo(c) == c.sink = "logger.info"
RECURSIVE puts(_)
puts(cs) ==
  IF cs = <<>> THEN <<>>
  ELSE (IF IsInfo(Head(cs)) THEN <<LogRecord(Head(cs).text)>> ELSE <<>>)
       \o puts(Tail(cs))

\* Mutant: the queue hands out the newest item first.
put_nowait_front(q, items) == items \o q

\* queue.put_nowait on the unbounded queue.
put_nowait(q, items) == q \o items

\* QueueListener.__init__, line 61: queue.Queue() takes the default maxsize 0,
\* which means no limit; a queue is full when it holds maxsize > 0 items.
maxsize == 0

\* Mutant: the queue built with room for one item.
full_bounded(q) == Len(q) >= 1

full(q) == maxsize > 0 /\ Len(q) >= maxsize

\* QueueHandler.emit for each record in turn: put_nowait never waits; on a full
\* queue it raises queue.Full, which emit hands to handleError, and the record
\* is dropped. The records that went onto the queue q.
RECURSIVE emit(_, _)
emit(q, recs) ==
  IF recs = <<>> THEN <<>>
  ELSE IF full(q) THEN emit(q, Tail(recs))
  ELSE <<Head(recs)>> \o emit(Append(q, Head(recs)), Tail(recs))

\* ------------------------------------------------------------------ formatter
\* MultiLineFormatter.format on the text the base Formatter produced: every
\* line break is followed by nine spaces unless the record has exc_text.
indent == "         "
RECURSIVE replace_newlines(_)
replace_newlines(text) ==
  IF text = <<>> THEN <<>>
  ELSE (IF Head(text) = "\n" THEN <<"\n", indent>> ELSE <<Head(text)>>)
       \o replace_newlines(Tail(text))

\* Mutant: the check of record.exc_text left out.
MultiLineFormatter_format_always(formatted_message, exc_text) ==
  replace_newlines(formatted_message)

MultiLineFormatter_format(formatted_message, exc_text) ==
  IF exc_text THEN formatted_message ELSE replace_newlines(formatted_message)

\* The line the file handler writes for a record made by logger.info(message):
\* format '%(asctime)s %(message)s', no exception attached.
format(rec) == MultiLineFormatter_format(<<"asctime", " ">> \o rec.msg, FALSE)

\* ------------------------------------------------------------------ file handler
\* logging.handlers.TimedRotatingFileHandler(log_path, when='midnight',
\* backupCount=2), line 165, as the standard library implements it. Time is
\* counted in calendar days; a line is the day it was written on. The active
\* file is ml.log; an archive is ml.log.<date>, the date being the day the
\* archived file was begun on.
\* Mutant: backupCount left out, which keeps every archive.
backupCount_default == 0

backupCount == 2

\* The handler opens ml.log for appending on day 1 in an empty directory and
\* schedules the rollover for the midnight after the file's modification time.
Opened ==
  [today |-> 1, active |-> <<>>, mtime |-> 1, archives |-> {}, rolloverAt |-> 2,
   writes |-> 0]

\* shouldRollover: t >= self.rolloverAt
shouldRollover(r) == r.today >= r.rolloverAt

\* getFilesToDelete: all but the backupCount archives with the latest dates.
getFilesToDelete(archives) ==
  IF Cardinality(archives) < backupCount THEN {}
  ELSE {a \in archives :
          Cardinality({b \in archives : b.date > a.date}) >= backupCount}

\* doRollover: the active file is renamed to the date of the interval it was
\* begun in (an archive of that name is removed first), the archives beyond
\* backupCount are deleted, a new ml.log is opened and the next rollover is
\* the midnight after now.
doRollover(r) ==
  LET dfn == r.rolloverAt - 1
      renamed == {a \in r.archives : a.date # dfn}
                   \cup {[date |-> dfn, lines |-> r.active]}
      kept == IF backupCount > 0 THEN renamed \ getFilesToDelete(renamed)
              ELSE renamed
  IN [r EXCEPT !.archives = kept, !.active = <<>>, !.mtime = r.today,
               !.rolloverAt = r.today + 1]

\* BaseRotatingHandler.emit: roll over when due, then write the line.
rotating_emit(r) ==
  LET r1 == IF shouldRollover(r) THEN doRollover(r) ELSE r
  IN [r1 EXCEPT !.active = Append(r1.active, r.today), !.mtime = r.today,
                !.writes = r.writes + 1]

\* ------------------------------------------------------------------ handlers
\* The host delivers an event to the live instance only while the main thread
\* is not blocked in join and the process is not exiting, and delivers nothing
\* more to an instance after its klippy:disconnect (sent once, when the
\* printer object's run ends).
CanRun == phase = "run" /\ ~joining /\ ~disconnected

Result(cs, e) == [calls |-> cs, exc |-> e]

\* What a handler leaves behind: its observation, and its records on the queue.
Finish(name, args, passed, r, extra) ==
  /\ op' = name
  /\ gcmd' = args
  /\ lvs' = passed
  /\ calls' = r.calls
  /\ exc' = r.exc
  /\ bg_queue' = put_nowait(bg_queue, emit(bg_queue, puts(r.calls)) \o extra)
  /\ sent' = sent \o emit(bg_queue, puts(r.calls)) \o extra

\* cmd_TRACE .. cmd_PRINT: self._log(LogVars.parse(gcmd, level))
command(name, g, level) ==
  /\ CanRun
  /\ ncmds < MaxCmds
  /\ ncmds' = ncmds + 1
  /\ IF parse_raises(g)
       THEN Finish(name, g, <<>>, Result(<<>>, "error"), <<>>)
       ELSE Finish(name, g, <<parse(g, level)>>,
                   _log(parse(g, level), logger), <<>>)
  /\ UNCHANGED <<aux, inst, config, logger, queue_listener, handlers, threads,
                 worker, atexit, phase, joining, disconnected>>

cmd_TRACE == \E g \in Gcmds({NoLVL}) : command("cmd_TRACE", g, TRACE)
cmd_DEBUG == \E g \in Gcmds({NoLVL}) : command("cmd_DEBUG", g, DEBUG)
cmd_INFO == \E g \in Gcmds({NoLVL}) : command("cmd_INFO", g, INFO)
cmd_WARN == \E g \in Gcmds({NoLVL}) : command("cmd_WARN", g, WARN)
cmd_ERROR == \E g \in Gcmds({NoLVL}) : command("cmd_ERROR", g, ERROR)
cmd_PRINT == \E g \in Gcmds({NoLVL}) : command("cmd_PRINT", g, None)

\* cmd_LOG: the LVL argument, absent or a text.
upper(s) ==
  CASE s = "warn" -> "WARN"
    [] s = "foo" -> "FOO"
    [] OTHER -> s

\* for l in Level: if l.name == lvl: lvl = l   (a text that matches no name
\* stays the str it was)
lookup(name) ==
  IF \E l \in Level : l.name = name
    THEN CHOOSE l \in Level : l.name = name
    ELSE str(name)

cmd_LOG_level(LVL) == IF LVL = NoLVL THEN None ELSE lookup(upper(LVL))

\* Line 189, reached only with LVL given: lvl is None.
cmd_LOG_not_found(LVL) == LVL # NoLVL /\ cmd_LOG_level(LVL) = None

cmd_LOG ==
  \E g \in Gcmds(LVLs) :
    IF cmd_LOG_not_found(g.LVL)
      THEN LET lv == LogVars(None, "MACRO_LOG",
                             <<"Failed to find log level from ", "None">>, 0, 0)
           IN /\ CanRun
              /\ ncmds < MaxCmds
              /\ ncmds' = ncmds + 1
              /\ Finish("cmd_LOG", g, <<lv>>, _log(lv, logger), <<>>)
              /\ UNCHANGED <<aux, inst, config, logger, queue_listener, handlers,
                             threads, worker, atexit, phase, joining,
                             disconnected>>
      ELSE command("cmd_LOG", g, cmd_LOG_level(g.LVL))

\* Mutant: setup without its guard.
already_setup_unguarded(lg) == FALSE

\* _setup_logging, line 154: if self.logger is not None: return
already_setup(lg) == lg # "None"

\* Line 164: not any(isinstance(h, QueueHandler) for h in self.logger.handlers)
no_queue_handler(n) == n = 0

\* Lines 174-175: the two records setup logs; rendering the second reads
\* .name of both thresholds, which an int does not have.
init_record_1 ==
  LogVars(None, "MACRO_LOG",
          <<"\n", " ----- Initializing with log_path = ", "log_path", " ----- ">>,
          0, 0)
init_record_2 ==
  LogVars(None, "MACRO_LOG",
          <<"\\--> Using level: ", log_level.name, ", file_level: ",
            log_file_level.name, " ">>, 0, 0)
init_record_2_raises == ~has_value(log_level) \/ ~has_value(log_file_level)

handle_connect ==
  /\ CanRun
  /\ IF already_setup(logger)
       THEN /\ Finish("handle_connect", NoGcmd, <<>>, Result(<<>>, "none"), <<>>)
            /\ UNCHANGED <<logger, queue_listener, handlers, threads,
                           bg_thread, atexit>>
       ELSE LET r1 == _log(init_record_1, "ML")
                r2 == _log(init_record_2, "ML")
                r == IF r1.exc # "none" THEN r1
                     ELSE IF init_record_2_raises
                       THEN Result(r1.calls, "AttributeError")
                     ELSE Result(r1.calls \o r2.calls, r2.exc)
                passed == IF r1.exc # "none" \/ init_record_2_raises
                            THEN <<init_record_1>>
                            ELSE <<init_record_1, init_record_2>>
            IN /\ logger' = "ML"
               /\ IF no_queue_handler(handlers)
                    THEN /\ queue_listener' =
                              [queue_listener EXCEPT ![inst] = "QL"]
                         /\ handlers' = handlers + 1
                         /\ threads' = threads + 1
                         /\ bg_thread' = "get"
                    ELSE UNCHANGED <<queue_listener, handlers, threads,
                                     bg_thread>>
               /\ atexit' = Append(atexit, inst)
               /\ Finish("handle_connect", NoGcmd, passed, r, <<>>)
  /\ UNCHANGED <<aux, inst, config, record, file, phase, joining, disconnected,
                 ncmds>>

\* shutdown, line 178: if self.queue_listener is not None
shutdown_stops(i) == queue_listener[i] # "None"

\* Mutant: stop joins without putting the sentinel.
stop_puts_nothing == <<>>

\* QueueListener.stop, line 75: what it puts.
stop_puts == <<StopSentinel>>

handle_disconnect ==
  /\ CanRun
  /\ LET lv == LogVars(TRACE, "ML", <<"Disconnecting">>, 0, 0)
         r == _log(lv, logger)
         stops == r.exc = "none" /\ shutdown_stops(inst)
         cs == IF stops THEN r.calls \o <<Call("stop", <<>>)>> ELSE r.calls
     IN /\ Finish("handle_disconnect", NoGcmd, <<lv>>, Result(cs, r.exc),
                  IF stops THEN stop_puts ELSE <<>>)
        /\ joining' = stops
  /\ disconnected' = TRUE
  /\ UNCHANGED <<aux, inst, config, logger, queue_listener, handlers, threads,
                 worker, atexit, phase, ncmds>>

\* bg_thread.join() returns once the worker has ended.
join ==
  /\ joining
  /\ bg_thread = "exited"
  /\ joining' = FALSE
  /\ UNCHANGED <<aux, inst, config, logger, queue_listener, handlers, threads,
                 bg_queue, worker, atexit, phase, disconnected, sent,
                 ncmds, observed>>

\* ------------------------------------------------------------------ worker
\* _bg_thread, lines 69-71: record = self.bg_queue.get(True); None ends the loop.
queue_get(q) == Head(q)
queue_rest(q) == Tail(q)

bg_thread_get ==
  /\ bg_thread = "get"
  /\ bg_queue # <<>>
  /\ record' = queue_get(bg_queue)
  /\ bg_queue' = queue_rest(bg_queue)
  /\ bg_thread' = IF queue_get(bg_queue).isNone THEN "exited" ELSE "handle"
  /\ UNCHANGED <<aux, inst, config, logger, queue_listener, handlers, threads,
                 file, atexit, phase, joining, disconnected, sent, ncmds,
                 observed>>

\* Mutant: the sink's failure comes out of handle.
handle_raises_on_failure(sink_failed) == sink_failed

\* Line 72 has no try around it: the loop goes on because handle itself lets
\* nothing out. The file handler's emit catches the exception of a failed
\* rollover or write and gives the record to handleError, which reports it on
\* stderr.
handle_raises(sink_failed) == FALSE

\* The n-th record handled is the n-th record put: those written and those
\* the sink failed on, together.
handled == Len(file) + Cardinality(failed)

\* Line 72 when the sink fails on the record: nothing is written; an
\* exception out of handle would end the thread.
bg_thread_handle_fails ==
  /\ bg_thread = "handle"
  /\ Cardinality(failed) < MaxFail
  /\ failed' = failed \cup {handled + 1}
  /\ bg_thread' = IF handle_raises(TRUE) THEN "exited" ELSE "get"
  /\ UNCHANGED <<applied, rotating, inst, config, logger, queue_listener,
                 handlers, threads, bg_queue, record, file, atexit, phase,
                 joining, disconnected, sent, ncmds, observed>>

\* Line 72: self.handler.handle(record)
bg_thread_handle ==
  /\ bg_thread = "handle"
  /\ file' = Append(file, format(record))
  /\ bg_thread' = "get"
  /\ UNCHANGED <<aux, inst, config, logger, queue_listener, handlers, threads,
                 bg_queue, record, atexit, phase, joining, disconnected, sent,
                 ncmds, observed>>

\* ------------------------------------------------------------------ process
\* load_config after a host restart: a new MacroLog in the same process, reading
\* the same configuration file; the logging module's logger 'ML', its handler,
\* the queue and the thread stay.
load_config ==
  /\ phase = "run" /\ ~joining /\ disconnected
  /\ inst < MaxInst
  /\ inst' = inst + 1
  /\ logger' = "None"
  /\ disconnected' = FALSE
  /\ gcmd' = NoGcmd /\ op' = "__init__"
  /\ lvs' = <<>> /\ calls' = <<>> /\ exc' = "none"
  /\ UNCHANGED <<aux, config, queue_listener, handlers, threads, bg_queue,
                 worker, atexit, phase, joining, sent, ncmds>>

\* The interpreter exits when the host's main loop ends, after the printer
\* object's run has delivered klippy:disconnect.
ExitAllowed == disconnected

\* Interpreter exit: the registered shutdowns run, last registered first.
exit ==
  /\ phase = "run" /\ ~joining /\ ExitAllowed
  /\ phase' = "exit"
  /\ UNCHANGED <<aux, inst, config, logger, queue_listener, handlers, threads,
                 bg_queue, worker, atexit, joining, disconnected, sent,
                 ncmds, observed>>

atexit_shutdown ==
  /\ phase = "exit" /\ ~joining
  /\ atexit # <<>>
  /\ LET i == atexit[Len(atexit)]
         stops == shutdown_stops(i)
     IN /\ Finish("shutdown", NoGcmd, <<>>,
                  Result(IF stops THEN <<Call("stop", <<>>)>> ELSE <<>>, "none"),
                  IF stops THEN stop_puts ELSE <<>>)
        /\ joining' = stops
  /\ atexit' = SubSeq(atexit, 1, Len(atexit) - 1)
  /\ UNCHANGED <<aux, inst, config, logger, queue_listener, handlers, threads,
                 worker, phase, disconnected, ncmds>>

exit_done ==
  /\ phase = "exit" /\ ~joining
  /\ atexit = <<>>
  /\ phase' = "done"
  /\ UNCHANGED <<aux, inst, config, logger, queue_listener, handlers, threads,
                 bg_queue, worker, atexit, joining, disconnected, sent,
                 ncmds, observed>>

\* ------------------------------------------------------------------ system
Init ==
  /\ inst = 1
  /\ \E c, f \in ConfigLevels :
       /\ log_level = level_of_config(c)
       /\ log_file_level = level_of_config(f)
  /\ logger = "None"
  /\ queue_listener = [i \in 1..MaxInst |-> "None"]
  /\ handlers = 0
  /\ threads = 0
  /\ bg_queue = <<>>
  /\ bg_thread = "none"
  /\ record = StopSentinel
  /\ file = <<>>
  /\ atexit = <<>>
  /\ phase = "run"
  /\ joining = FALSE
  /\ disconnected = FALSE
  /\ sent = <<>>
  /\ ncmds = 0
  /\ gcmd = NoGcmd
  /\ op = "__init__"
  /\ lvs = <<>>
  /\ calls = <<>>
  /\ exc = "none"
  /\ failed = {}
  /\ applied = NotApplied
  /\ rotating = Opened

Next ==
  \/ handle_connect
  \/ handle_disconnect
  \/ cmd_LOG
  \/ cmd_TRACE
  \/ cmd_DEBUG
  \/ cmd_INFO
  \/ cmd_WARN
  \/ cmd_ERROR
  \/ cmd_PRINT
  \/ join
  \/ bg_thread_get
  \/ bg_thread_handle
  \/ load_config
  \/ exit
  \/ atexit_shutdown
  \/ exit_done

Spec == Init /\ [][Next]_vars

\* The worker thread is scheduled whenever it can run, join returns once the
\* thread has ended, and the interpreter runs its exit hooks to the end.
Fairness ==
  /\ WF_vars(bg_thread_get)
  /\ WF_vars(bg_thread_handle)
  /\ WF_vars(join)
  /\ WF_vars(atexit_shutdown)
  /\ WF_vars(exit_done)

FairSpec == Spec /\ Fairness

\* ------------------------------------------------------------------ functions alone
\* The comparisons of Level and the formatter are called from many places; the
\* specifications below call each on its own, on every input of a bounded set,
\* from the state the dispatcher is constructed in with the default thresholds.
program == <<inst, config, logger, queue_listener, handlers, threads, bg_queue,
             worker, atexit, phase, joining, disconnected, sent, ncmds,
             observed, failed>>

\* config.getint('log_level', 2, ...), config.getint('log_file_level', 0, ...)
Constructed ==
  Init /\ log_level = level_of_config(2) /\ log_file_level = level_of_config(0)

Apply(fn, args, result) ==
  /\ applied' = [fn |-> fn, args |-> args, result |-> result]
  /\ UNCHANGED <<program, rotating>>

\* The operands a comparison meets: the members of Level, and the int 4 that
\* __init__ leaves as a threshold.
Operands == Level \cup {int(4)}

compare(fn, a, b, result) ==
  Apply(fn, <<a, b>>, IF le_raises(a, b) THEN "AttributeError" ELSE result)

Level_lt == \E a, b \in Operands : compare("__lt__", a, b, lt(a, b))
Level_le == \E a, b \in Operands : compare("__le__", a, b, le(a, b))
Level_gt == \E a, b \in Operands : compare("__gt__", a, b, gt(a, b))
Level_ge == \E a, b \in Operands : compare("__ge__", a, b, ge(a, b))

LevelNext == Level_lt \/ Level_le \/ Level_gt \/ Level_ge

SpecLevel == Constructed /\ [][LevelNext]_vars

\* ------------------------------------------------------------------ failing sink
\* The program with a file sink that may fail, under the default thresholds.
FailNext == Next \/ bg_thread_handle_fails

SpecFail == Constructed /\ [][FailNext]_vars

\* The formatter on every text of up to MaxLen pieces, with and without
\* exception text on the record.
Pieces == {"line1", "\n", "line2"}
Texts == UNION {[1..n -> Pieces] : n \in 0..MaxLen}

Formatter_format ==
  \E text \in Texts, exc_text \in BOOLEAN :
    Apply("format", <<text, exc_text>>,
          MultiLineFormatter_format(text, exc_text))

FormatNext == Formatter_format

SpecFormat == Constructed /\ [][FormatNext]_vars

\* The rotating file followed on its own: the worker hands it a record (line
\* 72), or midnight passes.
handler_handle ==
  /\ rotating.writes < MaxWrites
  /\ rotating' = rotating_emit(rotating)
  /\ UNCHANGED <<program, applied>>

midnight ==
  /\ rotating.today < MaxDay
  /\ rotating' = [rotating EXCEPT !.today = rotating.today + 1]
  /\ UNCHANGED <<program, applied>>

RotateNext == handler_handle \/ midnight

SpecRotate == Constructed /\ [][RotateNext]_vars

\* ------------------------------------------------------------------ what the claims read
\* The records the last handler passed to _log.
Passed == {lvs[i] : i \in DOMAIN lvs}

\* A record whose level is a member of Level, or none.
Levelled(lv) == lv.level \in Level
Wellformed(lv) == lv.level = None \/ Levelled(lv)

\* The threshold rule as the specification states it, on ranks: act iff the
\* level is none or its rank is at or above the configured threshold.
Passes(lv, threshold) ==
  lv.level = None \/ (Levelled(lv) /\ lv.level.value >= threshold.value)

Made(sink, text) == \E i \in DOMAIN calls : calls[i] = Call(sink, text)
Count(sink) == Cardinality({i \in DOMAIN calls : calls[i].sink = sink})

\* The record's rendered line went onto the background queue.
Handed(lv) == Made("logger.info", message(lv))

\* The record caused a console action, with or without the notify marker.
ConsoleSinks == {"respond_info", "respond_error", "command_error"}
ConsoleActed(lv) ==
  \E i \in DOMAIN calls :
    /\ calls[i].sink \in ConsoleSinks
    /\ calls[i].text \in {message(lv), <<"MR_NOTIFY | ">> \o message(lv)}

DisplayCalls(lv) ==
  {i \in DOMAIN calls : calls[i] = Call("_process_commands", display_command(lv))}

\* The records put before the first stop sentinel, and all records put.
RECURSIVE BeforeStop(_)
BeforeStop(q) ==
  IF q = <<>> \/ Head(q).isNone THEN <<>>
  ELSE <<Head(q)>> \o BeforeStop(Tail(q))
IsRecord(x) == ~x.isNone
Records(q) == SelectSeq(q, IsRecord)
Lines(q) == [i \in DOMAIN q |-> format(q[i])]

\* ------------------------------------------------------------------ claims

\* C1: with fileLevel a member of Level, every record passed to _log is handed
\* to the background queue exactly when its level is none or its rank is at or
\* above fileLevel, and no line of a record below fileLevel is ever put.
C1_FileSinkDecision ==
  log_file_level \in Level =>
    /\ \A lv \in Passed :
         Wellformed(lv) => (Handed(lv) <=> Passes(lv, log_file_level))
    /\ \A i \in DOMAIN sent, l \in Level :
         (IsRecord(sent[i]) /\ sent[i].msg[1] = l.name)
           => l.value >= log_file_level.value

\* The live dispatcher has run setup: self.logger is the logger 'ML'.
SetUp == logger # "None"

\* C2: every record passed to _log causes a console action exactly when its
\* level is none or its rank is at or above consoleLevel; a record with level
\* none reaches both the file queue and the console. Stated for a dispatcher
\* that has run setup, where the queue exists.
C2_ConsoleDecision ==
  \A lv \in Passed :
    (SetUp /\ Wellformed(lv)) =>
      /\ ConsoleActed(lv) <=> Passes(lv, log_level)
      /\ lv.level = None => (Handed(lv) /\ ConsoleActed(lv))

\* C3: a WARN record results in exactly one error-style response and no plain
\* response, whatever notify, display and consoleLevel are. Stated for a
\* dispatcher that has run setup.
C3_WarnRoutesToErrorSink ==
  \A lv \in Passed :
    (SetUp /\ lv.level = WARN) =>
      Count("respond_error") = 1 /\ Count("respond_info") = 0

\* C4: an ERROR record results in the command-error call, no plain and no
\* error-style response, and nothing is done after that call. Stated for a
\* dispatcher that has run setup.
C4_ErrorAborts ==
  \A lv \in Passed :
    (SetUp /\ lv.level = ERROR) =>
      /\ Count("command_error") = 1
      /\ Count("respond_info") = 0 /\ Count("respond_error") = 0
      /\ calls[Len(calls)].sink = "command_error"
      /\ exc = "none"

\* C5: a record with display set causes exactly one display update carrying
\* the rendered message without the notify marker, for every level and notify;
\* a record with display unset causes none. Stated for a dispatcher that has
\* run setup.
C5_DisplayOnce ==
  \A lv \in Passed :
    (SetUp /\ Wellformed(lv)) =>
      /\ Cardinality(DisplayCalls(lv)) = (IF lv.display # 0 THEN 1 ELSE 0)
      /\ Count("_process_commands") = (IF lv.display # 0 THEN 1 ELSE 0)

\* C6: once the worker has exited, the file holds exactly the records put
\* before the stop sentinel it consumed, in the order they were put; until
\* then the file is a prefix of them.
C6_ShutdownFlushesFIFO ==
  LET due == Lines(BeforeStop(sent))
  IN /\ Len(file) <= Len(due)
     /\ file = SubSeq(due, 1, Len(file))
     /\ bg_thread = "exited" => file = due

\* C6 witness: three records, the last of them the Disconnecting record, are
\* in the file in the order put, and the worker has exited.
C6_Witness ==
  /\ bg_thread = "exited"
  /\ Len(file) = 3
  /\ file[3] = <<"asctime", " ", "TRACE", " [", "ML", "]: ", "Disconnecting">>
  /\ file[1] # file[2]

\* C7: no record handed to the queue is lost. The worker never restarts, so a
\* record still unwritten once the worker has exited is never written.
C7_NoRecordLost ==
  bg_thread = "exited" => file = Lines(Records(sent))

\* C8: a connect event on a dispatcher that has run setup changes nothing: no
\* thread, queue or handler is created and no record is logged; and whenever
\* the dispatcher is set up there is one thread, one handler, one listener.
C8_SetupIdempotent ==
  [][ /\ (handle_connect /\ logger # "None") =>
           /\ UNCHANGED <<logger, queue_listener, handlers, threads,
                          bg_queue, worker, atexit, sent>>
           /\ lvs' = <<>> /\ calls' = <<>> /\ exc' = "none"
      /\ logger' # "None" =>
           /\ threads' = 1 /\ handlers' = 1
           /\ Cardinality({i \in DOMAIN queue_listener' :
                             queue_listener'[i] # "None"}) = 1
    ]_vars

\* C8 witness: a second connect has just returned on a set-up dispatcher whose
\* worker is running.
C8_Witness ==
  /\ op = "handle_connect" /\ lvs = <<>> /\ exc = "none"
  /\ logger # "None"
  /\ threads = 1
  /\ bg_thread \in {"get", "handle"}

\* C9: _ML with an LVL text that names no Level logs one untagged diagnostic
\* record from MACRO_LOG and returns; the user's message is not passed on.
\* Stated for a dispatcher that has run setup.
UnknownLVL(g) == g.LVL # NoLVL /\ ~(\E l \in Level : l.name = upper(g.LVL))
C9_UnknownLevelDiagnostic ==
  (SetUp /\ op = "cmd_LOG" /\ UnknownLVL(gcmd)) =>
    /\ Len(lvs) = 1
    /\ lvs[1].level = None /\ lvs[1].name = "MACRO_LOG"
    /\ Handed(lvs[1])
    /\ exc = "none"

\* C10: the threshold comparison is defined for every level and every accepted
\* threshold 0-4: on a set-up dispatcher no levelled record makes _log raise,
\* and with consoleLevel 4 exactly the ERROR records cause a console action.
C10_ThresholdFourDefined ==
  \A lv \in Passed :
    (SetUp /\ Levelled(lv)) =>
      /\ exc = "none"
      /\ log_level = int(4) => (ConsoleActed(lv) <=> lv.level = ERROR)

\* A step of one of the seven log commands.
CmdOps == {"cmd_LOG", "cmd_TRACE", "cmd_DEBUG", "cmd_INFO", "cmd_WARN",
           "cmd_ERROR", "cmd_PRINT"}
CommandStep == ncmds' # ncmds

\* C11: a log command whose MSG argument is absent ends with the host's error
\* before any record exists: nothing is passed to _log, nothing is put on the
\* queue, no sink is called, and the dispatcher (thresholds, logger, listener,
\* handlers, threads, exit hooks) and the worker are as they were.
C11_MissingMsgFailsFast ==
  [][ (CommandStep /\ gcmd'.MSG = Absent) =>
        /\ op' \in CmdOps
        /\ exc' = "error" /\ calls' = <<>> /\ lvs' = <<>>
        /\ UNCHANGED <<config, logger, queue_listener, handlers, threads,
                       bg_queue, sent, atexit, worker>>
    ]_vars

\* C11 witness: a command without MSG has just failed on a set-up dispatcher
\* whose worker is running with records pending.
C11_Witness ==
  /\ op \in CmdOps /\ gcmd.MSG = Absent
  /\ exc = "error" /\ calls = <<>>
  /\ SetUp /\ bg_thread = "handle" /\ bg_queue # <<>>

\* The last n items put on the queue.
LastSent(n) ==
  IF n <= Len(sent) THEN SubSeq(sent, Len(sent) - n + 1, Len(sent)) ELSE <<>>

\* C12: whenever the host may dispatch a command, a log command can run to its
\* end whatever the queue holds and wherever the worker is (no thread yet,
\* waiting, writing, exited): _ML, whose LVL selects any level or none, and a
\* command with a fixed level, the other handlers being that one with another
\* level. Every logger.info call of the last command is on the
\* queue when the command has returned, and the command takes no step of the
\* worker. At most one thread is ever started, and an item leaves the queue
\* only by that thread taking the oldest.
C12_ProducersNeverBlock ==
  /\ []((CanRun /\ ncmds < MaxCmds) =>
          (ENABLED cmd_LOG /\ ENABLED cmd_TRACE))
  /\ [](/\ op \in CmdOps => LastSent(Len(puts(calls))) = puts(calls)
        /\ threads <= 1
        /\ (bg_thread = "none") <=> (threads = 0))
  /\ [][ /\ CommandStep => UNCHANGED worker
         /\ Len(bg_queue') < Len(bg_queue) =>
              /\ bg_thread = "get" /\ threads = 1
              /\ bg_queue' = Tail(bg_queue)
     ]_vars

\* C12 witness: a command has just put its record while the worker was in the
\* middle of writing another and a record was still pending.
C12_Witness ==
  /\ op \in CmdOps /\ puts(calls) # <<>> /\ exc = "none"
  /\ bg_thread = "handle"
  /\ Len(bg_queue) >= 2
  /\ bg_queue[Len(bg_queue)] = puts(calls)[1]

\* The order and the ranks as the specification gives them.
Order == <<"TRACE", "DEBUG", "INFO", "WARN", "ERROR">>
Ranks == <<0, 1, 2, 3, 5>>
Pos(l) == CHOOSE i \in DOMAIN Order : Order[i] = l.name
Compared(fn, m, n) ==
  CASE fn = "__lt__" -> m < n
    [] fn = "__le__" -> m <= n
    [] fn = "__gt__" -> m > n
    [] fn = "__ge__" -> m >= n

\* C13: on every pair of Level members each of <, <=, >, >= gives what the
\* same comparison of the ranks 0, 1, 2, 3, 5 gives, which is the comparison of
\* the positions in TRACE < DEBUG < INFO < WARN < ERROR; the members are five
\* with five different ranks, none of them 4.
C13_LevelOrder ==
  /\ (applied.fn # "none" /\ applied.args[1] \in Level
        /\ applied.args[2] \in Level) =>
       LET a == applied.args[1]
           b == applied.args[2]
       IN /\ applied.result = Compared(applied.fn, Ranks[Pos(a)], Ranks[Pos(b)])
          /\ applied.result = Compared(applied.fn, Pos(a), Pos(b))
  /\ \A l \in Level : l.value = Ranks[Pos(l)] /\ l.value # 4
  /\ Cardinality(Level) = 5
  /\ Cardinality({l.value : l \in Level}) = 5

\* C13 witness: WARN < ERROR has been evaluated across the gap and is true.
C13_Witness ==
  /\ applied.fn = "__lt__"
  /\ applied.args = <<WARN, ERROR>>
  /\ applied.result = TRUE

\* A line has just been written; a calendar-day boundary lies between the last
\* modification of the active file and now.
Written == rotating'.writes = rotating.writes + 1
Crossed == rotating.today > rotating.mtime

\* C14: the first write after one or more midnights archives the active file
\* exactly once, with the lines it held, and the written line is the only line
\* of the new active file; any other write appends and archives nothing; no
\* other step touches the files; there are never more than two archives, and
\* an archive is deleted only when every archive kept is younger.
C14_RotationRetention ==
  /\ [](Cardinality(rotating.archives) <= 2)
  /\ [][ /\ (Written /\ Crossed) =>
              /\ [date |-> rotating.mtime, lines |-> rotating.active]
                   \in rotating'.archives
              /\ Cardinality(rotating'.archives \ rotating.archives) = 1
              /\ rotating'.active = <<rotating.today>>
         /\ (Written /\ ~Crossed) =>
              /\ rotating'.archives = rotating.archives
              /\ rotating'.active = Append(rotating.active, rotating.today)
         /\ ~Written =>
              /\ rotating'.archives = rotating.archives
              /\ rotating'.active = rotating.active
         /\ \A a \in rotating.archives \ rotating'.archives :
              \A b \in rotating'.archives : a.date < b.date
     ]_vars

\* C14 witness: on day 4, after lines on each day, the third rotation has left
\* the archives of days 2 and 3 and deleted that of day 1.
C14_Witness ==
  /\ rotating.today = 4
  /\ rotating.active = <<4>>
  /\ rotating.archives = {[date |-> 2, lines |-> <<2>>],
                          [date |-> 3, lines |-> <<3>>]}

\* Line breaks among the first n pieces of a text.
Breaks(text, n) == Cardinality({i \in 1..n : text[i] = "\n"})

\* C15: without exception text the result is the text with one piece of
\* exactly nine spaces put after every line break and nothing else changed, so
\* "line1\nline2" becomes "line1\n" + 9 spaces + "line2"; with exception text
\* the result is the text as it was.
C15_MultiLineIndent ==
  /\ applied.fn = "format" =>
       LET text == applied.args[1]
           out == applied.result
       IN IF applied.args[2]
            THEN out = text
            ELSE /\ Len(out) = Len(text) + Breaks(text, Len(text))
                 /\ \A i \in DOMAIN text :
                      LET j == i + Breaks(text, i - 1)
                      IN /\ out[j] = text[i]
                         /\ text[i] = "\n" =>
                              /\ Len(out[j + 1]) = 9
                              /\ out[j + 1] = "         "
  /\ MultiLineFormatter_format(<<"line1", "\n", "line2">>, FALSE)
       = <<"line1", "\n", "         ", "line2">>
  /\ Len(indent) = 9

\* C15 witness: a text with two line breaks, the second at its end, has been
\* formatted without exception text.
C15_Witness ==
  /\ applied.fn = "format"
  /\ applied.args = <<<<"line1", "\n", "line2", "\n">>, FALSE>>
  /\ Len(applied.result) = 6

\* The notify marker, and the text with it in front.
Marker == "MR_NOTIFY | "
Marked(text) == <<Marker>> \o text
HasMarker(text) == \E i \in DOMAIN text : text[i] = Marker
ConsoleCalls == {i \in DOMAIN calls : calls[i].sink \in ConsoleSinks}
QuietCalls == {i \in DOMAIN calls : calls[i].sink \notin ConsoleSinks}

\* What goes to the file and to the display never carries the marker.
MarkerStaysOnConsole ==
  /\ \A i \in QuietCalls : ~HasMarker(calls[i].text)
  /\ \A i \in DOMAIN file : ~HasMarker(file[i])

\* C16 as claimed: the console text of a record is the rendered message with
\* the marker in front exactly when notify is set and the level is TRACE, DEBUG
\* or INFO; for level none, WARN and ERROR it is the rendered message alone;
\* the file and the display never carry the marker.
C16_MarkerBelowWarnOnly ==
  /\ \A i \in ConsoleCalls : \E lv \in Passed :
       /\ Wellformed(lv)
       /\ calls[i].text =
            (IF lv.notify # 0 /\ lv.level \in {TRACE, DEBUG, INFO}
               THEN Marked(message(lv)) ELSE message(lv))
  /\ MarkerStaysOnConsole

\* C16 as amended: the console text of a record is the rendered message with
\* the marker in front exactly when notify is set, whatever the level (none,
\* WARN and ERROR included); the file and the display never carry the marker.
C16_MarkerWheneverNotify ==
  /\ \A i \in ConsoleCalls : \E lv \in Passed :
       /\ Wellformed(lv)
       /\ calls[i].text =
            (IF lv.notify # 0 THEN Marked(message(lv)) ELSE message(lv))
  /\ MarkerStaysOnConsole

\* C16 witness: a WARN record with notify set went to the error-style response
\* with the marker in front, and its line on the queue has none.
C16_Witness ==
  /\ op = "cmd_WARN" /\ gcmd.NOTIFY = 1 /\ exc = "none"
  /\ Made("respond_error", Marked(message(lvs[1])))
  /\ Handed(lvs[1])

\* C17: a dispatcher that has run setup and has not been disconnected has its
\* own listener and the worker is running, whichever instance of the process
\* it is. Stated for thresholds that are members of Level.
C17_OneWorkerPerInstance ==
  (SetUp /\ ~disconnected /\ phase = "run"
     /\ log_level \in Level /\ log_file_level \in Level) =>
    /\ queue_listener[inst] # "None"
    /\ bg_thread \in {"get", "handle"}

\* The lines of the first n records of q, those at the positions in lost left
\* out.
RECURSIVE LinesBut(_, _, _)
LinesBut(q, n, lost) ==
  IF n = 0 THEN <<>>
  ELSE LinesBut(q, n - 1, lost)
       \o (IF n \in lost THEN <<>> ELSE <<format(q[n])>>)

\* C18: a record the file sink fails on costs that record alone. The worker
\* leaves its loop only by taking the stop sentinel off the queue; the file
\* holds, in order, every record handled so far but the failed ones, and once
\* the worker has exited every record put before the sentinel but the failed
\* ones; the failing step changes nothing a producer sees.
C18_SinkFailureContained ==
  /\ [](LET due == BeforeStop(sent)
        IN /\ handled <= Len(due)
           /\ file = LinesBut(due, handled, failed)
           /\ bg_thread = "exited" => handled = Len(due))
  /\ [][ /\ (bg_thread' = "exited" /\ bg_thread # "exited") =>
              (bg_thread = "get" /\ bg_queue # <<>> /\ Head(bg_queue).isNone)
         /\ failed' # failed =>
              /\ bg_thread' = "get"
              /\ UNCHANGED <<observed, bg_queue, sent, joining, phase, logger,
                             queue_listener, handlers, threads>>
     ]_vars

\* C18 witness: the sink failed on the first record; the two records put
\* after it are in the file and the worker has exited on the sentinel.
C18_Witness ==
  /\ failed = {1}
  /\ bg_thread = "exited"
  /\ Len(file) = 2
  /\ file[2] = <<"asctime", " ", "TRACE", " [", "ML", "]: ", "Disconnecting">>

\* A step in which shutdown is entered: from handle_disconnect once _log has
\* returned, or as an exit hook; and the instance it is called on.
ShutdownFromDisconnect == ~disconnected /\ disconnected' /\ exc' = "none"
ShutdownFromExit == Len(atexit') < Len(atexit)
ShutdownCalled == ShutdownFromDisconnect \/ ShutdownFromExit
ShutdownOn == IF ShutdownFromExit THEN atexit[Len(atexit)] ELSE inst
StopCalled == \E i \in DOMAIN calls' : calls'[i].sink = "stop"

\* C19: shutdown on an instance without a listener does nothing; on one with a
\* listener it puts the sentinel last on the queue and waits in join; join
\* returns only when the worker has exited, can return at once when it has
\* already exited, and under fair scheduling always returns, so the exit hooks
\* run to their end; the worker leaves its loop only by taking the sentinel
\* and is never started again.
C19_ShutdownTerminates ==
  /\ [][ /\ (ShutdownCalled /\ queue_listener[ShutdownOn] = "None") =>
              /\ ~StopCalled /\ ~joining'
              /\ \A i \in DOMAIN bg_queue' : i > Len(bg_queue) =>
                   ~bg_queue'[i].isNone
              /\ UNCHANGED <<threads, worker>>
         /\ (ShutdownCalled /\ queue_listener[ShutdownOn] # "None") =>
              /\ StopCalled /\ joining'
              /\ bg_queue'[Len(bg_queue')] = StopSentinel
              /\ UNCHANGED <<threads, worker>>
         /\ (joining /\ ~joining') => bg_thread = "exited"
         /\ (bg_thread' = "exited" /\ bg_thread # "exited") =>
              (bg_thread = "get" /\ bg_queue # <<>> /\ Head(bg_queue).isNone)
         /\ bg_thread = "exited" => (bg_thread' = "exited" /\ threads' = threads)
     ]_vars
  /\ []((joining /\ bg_thread = "exited") => ENABLED join)
  /\ (joining ~> ~joining)
  /\ (phase = "exit" ~> phase = "done")

\* C19 witness: shutdown ran as an exit hook after the disconnect had already
\* stopped the worker, and has returned; its sentinel is left on the queue.
C19_Witness ==
  /\ op = "shutdown" /\ phase = "exit" /\ ~joining
  /\ Made("stop", <<>>)
  /\ bg_thread = "exited"
  /\ bg_queue = <<StopSentinel>>

\* C20: on the first instance before any connect (no logger, no worker), a
\* disconnect event or a log command that passes a well-formed record to _log
\* ends without an exception and starts no worker. Stated for thresholds that
\* are members of Level.
C20_SafeBeforeConnect ==
  (/\ inst = 1 /\ logger = "None"
   /\ log_level \in Level /\ log_file_level \in Level
   /\ op \in CmdOps \cup {"handle_disconnect"}
   /\ lvs # <<>> /\ \A lv \in Passed : Wellformed(lv)) =>
    /\ exc = "none"
    /\ threads = 0 /\ bg_thread = "none"

====
